---- MODULE Spec2Model ----
(***************************************************************************)
(* plastic-automate (src/src/main.rs): a command-line driver around the    *)
(* Plastic SCM client `cm`.  `ensure` undoes pending changes until         *)
(* `cm status` reports none; `update` does that, runs `cm update`, and     *)
(* does it again.                                                          *)
(*                                                                         *)
(* The program is sequential.  Each action below is one stretch of main.rs *)
(* that ends with the completion of one external `cm` process, together    *)
(* with everything the code does with the result up to the next spawn.     *)
(* The `cm` binary and the workspace on disk are the environment: every    *)
(* outcome std::process::Command::output() can deliver is enumerated.      *)
(***************************************************************************)
EXTENDS Integers, Sequences, FiniteSets, TLC

(* ------------------------------ bounds -------------------------------- *)

\* Most external processes spawned in one run of the program.
MaxCalls == 5

\* Most <Change> entries in one status document.
MaxChanges == 2

\* File paths the workspace may report as changed.
Paths == {"/ws/a.txt", "/ws/b.txt"}

\* Values of --working-dir (or of current_dir() without it).
Dirs == {"/ws", "/other"}

(* ------------------------------ state --------------------------------- *)

VARIABLES
    subcommand,   \* matches.subcommand(): "ensure", "update" or "none"
    working_dir,  \* the working_dir string resolved in main
    verbose,      \* matches.is_present("verbose")
    log,          \* matches.is_present("log")
    pc,           \* where the program is: "main", "get_status", "undo",
                  \* "update_latest", "done" (main returned), "panicked"
    caller,       \* call site of the running ensure_clean:
                  \* "ensure" (line 98), "update_pre" (123), "update_post" (125)
    status,       \* changes of the StatusOutput held by ensure_clean
    idx,          \* position of the `for change in changes` loop of cleanup
    ws,           \* environment: paths with a pending change in the workspace
    trace,        \* history: every external process spawned, in order
    exit_status,  \* the ExitStatus inside the Output of the latest process:
                  \* "exited", "killed", or "none" when there is no Output
    console,      \* number of lines println! has written to stdout
    contents,     \* get_status: <<document>> decoded last from the stdout of
                  \* `cm status`, <<>> before the first
    panic         \* the panic message of expect(), <<>> while none was raised

vars == <<subcommand, working_dir, verbose, log, pc, caller, status, idx,
          ws, trace, exit_status, console, contents, panic>>

(* ------------------------- the status document ------------------------ *)

\* One <Change> element of the document: <Path> may be missing.
Entries ==
    {[hasPath |-> TRUE, path |-> p] : p \in Paths}
        \cup {[hasPath |-> FALSE, path |-> ""]}

SeqsUpTo(S, n) == UNION {[1..k -> S] : k \in 0..n}

\* What stdout of `cm status --xml` can hold: text that is not a
\* StatusOutput document, a document without any change collection, or a
\* document with a collection of entries.
Documents ==
    {[wellFormed |-> FALSE, hasChanges |-> FALSE, entries |-> <<>>],
     [wellFormed |-> TRUE, hasChanges |-> FALSE, entries |-> <<>>]}
        \cup {[wellFormed |-> TRUE, hasChanges |-> TRUE, entries |-> e] :
                 e \in SeqsUpTo(Entries, MaxChanges)}

\* The documents `cm status` can print for a workspace whose pending changes
\* are w: it reports no change that is not pending, and reports an empty
\* list exactly when nothing is pending.
StatusDocuments(w) ==
    {d \in Documents :
        d.wellFormed =>
            /\ \A i \in DOMAIN d.entries :
                   d.entries[i].hasPath => d.entries[i].path \in w
            /\ (d.entries = <<>>) <=> (w = {})}

\* struct Change: #[serde(rename = "Path", default)] path: String.
\* (size is only ever formatted into console lines; it is left out.)
DeserializeChange(e) == [path |-> IF e.hasPath THEN e.path ELSE ""]

\* Variant of Deserialize: the collection has no `default`, so a document
\* without it is an error.
DeserializeStrict(doc) ==
    IF ~doc.wellFormed \/ ~doc.hasChanges
    THEN [ok |-> FALSE, changes |-> <<>>]
    ELSE [ok |-> TRUE,
          changes |-> [i \in DOMAIN doc.entries |->
                          DeserializeChange(doc.entries[i])]]

\* serde_xml_rs::from_str::<StatusOutput>: Err on text that is no document;
\* an absent collection takes its Default, the empty Vec.
Deserialize(doc) ==
    IF ~doc.wellFormed
    THEN [ok |-> FALSE, changes |-> <<>>]
    ELSE [ok |-> TRUE,
          changes |-> IF doc.hasChanges
                      THEN [i \in DOMAIN doc.entries |->
                               DeserializeChange(doc.entries[i])]
                      ELSE <<>>]

(* ------------------------- external processes ------------------------- *)

\* Command::output(): Err (the process could not be spawned), or Ok with an
\* Output whose exit status says the process exited or was killed by a signal.
OutputResults == {"spawn_error", "exited", "killed"}

\* The Result<Output> the code holds for an outcome, and the ExitStatus in it.
Returned(result) == IF result = "spawn_error" THEN "Err" ELSE "Ok"
ExitStatus(result) == IF result = "spawn_error" THEN "none" ELSE result

StatusArgs == <<"status", "--xml", "--fullpath">>
UndoArgs(change) == <<"undo", change.path>>
UpdateArgs == <<"update", "--last", "--override", "--forced">>

\* n of a call that decoded no Status.
NoStatus == -1

\* One entry of the history: the arguments and directory the process was
\* given, whether output() returned Ok or Err, and for a status query the
\* number of changes decoded from its stdout.
Invocation(args, dir, result, n) ==
    [args |-> args, cwd |-> dir, result |-> Returned(result), n |-> n]

\* .expect(...) on the Result of output(): panics on Err only; the exit
\* status inside Ok(Output) is never read.
ExpectPanics(result) == result = "spawn_error"

Bool2Nat(b) == IF b THEN 1 ELSE 0

\* Lines written by `if log { println!(STDOUT); println!(STDERR) }`.
LogLines == 2 * Bool2Nat(log)

(* ------------------------------- main --------------------------------- *)

Init ==
    /\ subcommand \in {"ensure", "update", "none"}
    /\ working_dir \in Dirs
    /\ verbose \in BOOLEAN
    /\ log \in BOOLEAN
    /\ pc = "main"
    /\ caller = "none"
    /\ status = <<>>
    /\ idx = 0
    /\ ws \in SUBSET Paths
    /\ trace = <<>>
    /\ exit_status = "none"
    /\ console = 0
    /\ contents = <<>>
    /\ panic = <<>>

\* Variant of LoopBreaks: the loop also stops on a Status with one change.
LoopBreaksAtMostOne(changes) == Len(changes) <= 1

\* Variant of LoopBreaks: the test is inverted.
LoopBreaksInverted(changes) == Len(changes) # 0

\* if status.changes.changes.is_empty() { break; }
LoopBreaks(changes) == Len(changes) = 0

\* Variant of AfterEnsureClean: update returns after its first ensure_clean.
AfterEnsureCleanNoUpdate(site) == "done"

\* Where control goes when ensure_clean returns to its call site.
AfterEnsureClean(site) ==
    CASE site = "ensure" -> "done"
      [] site = "update_pre" -> "update_latest"
      [] site = "update_post" -> "done"

\* First ensure_clean call site of a subcommand: line 98 for `ensure`,
\* line 123 for `update`.
FirstCallSite(cmd) == IF cmd = "ensure" THEN "ensure" ELSE "update_pre"

\* Variant of FirstPc: update starts with update_latest.
FirstPcUpdateFirst(cmd) ==
    IF cmd = "update" THEN "update_latest" ELSE "get_status"

\* The first statement of the subcommand's function that spawns a process:
\* both ensure_clean(...) at line 98 and update(...) at line 113 begin with
\* the status query of ensure_clean.
FirstPc(cmd) == "get_status"

\* main: dispatch on the subcommand and enter ensure_clean, up to the first
\* spawn of `cm status`.  Any other command line does nothing and returns.
Main ==
    /\ pc = "main"
    /\ IF subcommand = "none"
       THEN /\ pc' = "done"
            /\ UNCHANGED <<caller, console>>
       ELSE /\ pc' = FirstPc(subcommand)
            /\ caller' = FirstCallSite(subcommand)
            \* "* Ensure clean workspace", "* Get workspace status"
            /\ console' = console + 2 * Bool2Nat(verbose)
    /\ UNCHANGED <<subcommand, working_dir, verbose, log, status, idx, ws,
                   trace, exit_status, contents, panic>>

(* ----------------------- get_status / ensure_clean -------------------- *)

\* get_status: .current_dir(working_dir)
StatusDir == working_dir

\* .expect("Error during cm status")
StatusExpectPanics(result) == ExpectPanics(result)

\* Variant of DeserializeExpectPanics: unwrap_or_default() for expect().
DeserializeNeverPanics(decoded) == FALSE

\* .expect(&format!("Cannot deserialize `{}`", contents))
DeserializeExpectPanics(decoded) == ~decoded.ok

\* Lines ensure_clean, cleanup and undo print between a non-empty Status and
\* the first spawn of `cm undo`: "* Workspace has pending changes:", one
\* "- File ..." per change, "* Undo changes", "* Undo change: ...".
PendingLines(changes) == Bool2Nat(verbose) * (Len(changes) + 3)

\* Lines printed from the return of ensure_clean to the next spawn or to the
\* end of main: "* Update workspace" in update_latest, "* Done!" in main.
ReturnLines == Bool2Nat(verbose)

\* Variant of CleanupFinished: cleanup returns after its first undo.
CleanupFinishedAfterOne(changes, i) == i >= 1

\* `for change in changes`: the loop is over after i turns.
CleanupFinished(changes, i) == i >= Len(changes)

\* n of the history entry of a status query: the number of changes serde
\* decoded, NoStatus when it returned Err.
Decoded(decoded) == IF decoded.ok THEN Len(decoded.changes) ELSE NoStatus

\* One pass through `let status = get_status(...)` of the loop of
\* ensure_clean: spawn `cm status`, decode its stdout, then break out of the
\* loop (and return to the call site) or enter cleanup.
GetStatus ==
    /\ pc = "get_status"
    /\ Len(trace) < MaxCalls
    /\ \E result \in OutputResults :
       /\ exit_status' = ExitStatus(result)
       /\
         IF StatusExpectPanics(result)
         THEN /\ pc' = "panicked"
              /\ trace' = Append(trace,
                     Invocation(StatusArgs, StatusDir, result, NoStatus))
              /\ panic' = <<"Error during cm status">>
              /\ UNCHANGED <<status, idx, console, contents>>
         ELSE \E doc \in StatusDocuments(ws) :
                LET decoded == Deserialize(doc) IN
                /\ trace' = Append(trace,
                       Invocation(StatusArgs, StatusDir, result,
                                  Decoded(decoded)))
                /\ contents' = <<doc>>
                /\ IF DeserializeExpectPanics(decoded)
                   THEN /\ pc' = "panicked"
                        /\ panic' = <<"Cannot deserialize", doc>>
                        /\ console' = console + LogLines
                        /\ UNCHANGED <<status, idx>>
                   ELSE /\ status' = decoded.changes
                        /\ panic' = panic
                        /\ IF LoopBreaks(decoded.changes)
                           THEN /\ pc' = AfterEnsureClean(caller)
                                /\ idx' = 0
                                /\ console' = console + LogLines + ReturnLines
                           ELSE /\ IF CleanupFinished(decoded.changes, 0)
                                   THEN pc' = "get_status" /\ idx' = 0
                                   ELSE pc' = "undo" /\ idx' = 1
                                /\ console' = console + LogLines
                                              + PendingLines(decoded.changes)
    /\ UNCHANGED <<subcommand, working_dir, verbose, log, caller, ws>>

(* ---------------------------- cleanup / undo -------------------------- *)

\* Variant of UndoDir: no current_dir() call, the process inherits the
\* directory the program was started in.
UndoDirInherited == "."

\* undo: .current_dir(working_dir)
UndoDir == working_dir

\* Variant of UndoExpectPanics: the exit status is checked as well.
UndoPanicsUnlessExited(result) == result # "exited"

\* Variant of UndoExpectPanics: the Result of output() is dropped.
UndoNeverPanics(result) == FALSE

\* .expect("Error during cm undo")
UndoExpectPanics(result) == ExpectPanics(result)

\* Variant of CleanupChange: the changes are walked back to front.
CleanupChangeReversed(changes, i) == changes[Len(changes) + 1 - i]

\* `for change in changes`: the change the i-th turn of the loop hands to undo.
CleanupChange(changes, i) == changes[i]

\* What a `cm undo path` process that ran can leave behind: the change
\* reverted, or still pending (the code never looks).
UndoEffects(w, path) == {w, w \ {path}}

\* Variant of AfterCleanup: the Status is fetched once and cleanup runs on it
\* again.
AfterCleanupReuse == [pc |-> "undo", idx |-> 1]

\* ensure_clean: after cleanup(...) the loop body is over and the loop starts
\* again at `let status = get_status(...)`.
AfterCleanup == [pc |-> "get_status", idx |-> 0]

\* One turn of the `for` loop of cleanup: spawn `cm undo <path>`; after the
\* last turn control is back at the top of the loop of ensure_clean.
Undo ==
    /\ pc = "undo"
    /\ Len(trace) < MaxCalls
    /\ LET change == CleanupChange(status, idx) IN
       \E result \in OutputResults :
       /\ exit_status' = ExitStatus(result)
       /\
         IF UndoExpectPanics(result)
         THEN /\ pc' = "panicked"
              /\ trace' = Append(trace,
                     Invocation(UndoArgs(change), UndoDir, result, NoStatus))
              /\ panic' = <<"Error during cm undo">>
              /\ UNCHANGED <<idx, ws, console>>
         ELSE /\ trace' = Append(trace,
                     Invocation(UndoArgs(change), UndoDir, result, NoStatus))
              /\ ws' \in UndoEffects(ws, change.path)
              /\ IF CleanupFinished(status, idx)
                 THEN /\ pc' = AfterCleanup.pc
                      /\ idx' = AfterCleanup.idx
                 ELSE /\ pc' = "undo"
                      /\ idx' = idx + 1
              \* "* Undo change: ..." of the next turn, or
              \* "* Get workspace status" of the next query
              /\ console' = console + LogLines + Bool2Nat(verbose)
              /\ panic' = panic
    /\ UNCHANGED <<subcommand, working_dir, verbose, log, caller, status,
                   contents>>

(* ------------------------------ update -------------------------------- *)

\* Variant of UpdateExpectPanics: the Result of output() is dropped.
UpdateNeverPanics(result) == FALSE

\* update_latest: .current_dir(working_dir)
UpdateDir == working_dir

\* .expect("Error during cm update")
UpdateExpectPanics(result) == ExpectPanics(result)

\* Variant of AfterUpdateLatest: update returns right after update_latest.
AfterUpdateLatestReturns == "done"

\* update: the statement after update_latest(...) is the second
\* ensure_clean(...), which starts with a status query.
AfterUpdateLatest == "get_status"

\* What `cm update --last --override --forced` can leave pending.
UpdateEffects == SUBSET Paths

\* update_latest, then entry into the second ensure_clean of update.
UpdateLatest ==
    /\ pc = "update_latest"
    /\ Len(trace) < MaxCalls
    /\ \E result \in OutputResults :
       /\ exit_status' = ExitStatus(result)
       /\
         IF UpdateExpectPanics(result)
         THEN /\ pc' = "panicked"
              /\ trace' = Append(trace,
                     Invocation(UpdateArgs, UpdateDir, result, NoStatus))
              /\ panic' = <<"Error during cm update">>
              /\ UNCHANGED <<caller, ws, console>>
         ELSE /\ trace' = Append(trace,
                     Invocation(UpdateArgs, UpdateDir, result, NoStatus))
              /\ ws' \in UpdateEffects
              /\ caller' = "update_post"
              /\ pc' = AfterUpdateLatest
              \* "* Ensure clean workspace", "* Get workspace status"
              /\ console' = console + LogLines + 2 * Bool2Nat(verbose)
              /\ panic' = panic
    /\ UNCHANGED <<subcommand, working_dir, verbose, log, status, idx,
                   contents>>

Next ==
    \/ Main
    \/ GetStatus
    \/ Undo
    \/ UpdateLatest

Spec == Init /\ [][Next]_vars

(* ------------------------- runs of any length ------------------------- *)

\* The loop of ensure_clean has no iteration bound, while the history kept in
\* trace is capped at MaxCalls.  Runs of any length are followed with a
\* history of one call: it is emptied (with the line counter) before the
\* next process is spawned; the program's own state is left alone.
ForgetHistory ==
    /\ pc \in {"get_status", "undo", "update_latest"}
    /\ trace # <<>>
    /\ trace' = <<>>
    /\ console' = 0
    /\ UNCHANGED <<subcommand, working_dir, verbose, log, pc, caller, status,
                   idx, ws, exit_status, contents, panic>>

\* A step of the program taken with an empty history.
LiveStep ==
    /\ trace = <<>>
    /\ Next

NextLive ==
    \/ LiveStep
    \/ ForgetHistory

\* Runs of any length are followed without console output: the line counter
\* is forgotten with the history, and nothing else reads the two flags.
InitLive ==
    /\ Init
    /\ ~verbose
    /\ ~log

\* The program is one thread of blocking calls: as long as it has a next
\* step (and the process it waits for ends), it takes it.
SpecLive == InitLive /\ [][NextLive]_vars /\ WF_vars(NextLive)

(* --------------------------- the history ------------------------------ *)

IsStatus(e) == e.args = StatusArgs
IsUndo(e) == e.args[1] = "undo"
IsUpdate(e) == e.args = UpdateArgs

\* A status query that decoded a Status with no change.
IsClean(e) == IsStatus(e) /\ e.n = 0

\* A call that failed: output() returned Err, or the stdout of a status
\* query did not decode.
IsFailed(e) == e.result = "Err" \/ (IsStatus(e) /\ e.n = NoStatus)

Last(h) == h[Len(h)]

\* Positions in the history of the status queries, the undo calls, the
\* update calls and the failed calls.
StatusCalls == {i \in DOMAIN trace : IsStatus(trace[i])}
UndoCalls == {i \in DOMAIN trace : IsUndo(trace[i])}
UpdateCalls == {i \in DOMAIN trace : IsUpdate(trace[i])}
FailedCalls == {i \in DOMAIN trace : IsFailed(trace[i])}

RECURSIVE SumReported(_)
\* Sum of the numbers of changes the status queries of h decoded.
SumReported(h) ==
    IF h = <<>> THEN 0
    ELSE SumReported(SubSeq(h, 1, Len(h) - 1))
           + (IF IsStatus(Last(h)) /\ Last(h).n > 0 THEN Last(h).n ELSE 0)

\* Index of the most recent status query, 0 before the first.
LastStatus ==
    LET calls == StatusCalls IN
    IF calls = {} THEN 0
    ELSE CHOOSE i \in calls : \A j \in calls : j <= i

\* The calls made after call number i.
CallsAfter(i) == SubSeq(trace, i + 1, Len(trace))

\* The calls made since the most recent status query.
Round == CallsAfter(LastStatus)

\* An ensure_clean call has just returned: control is at update_latest, or
\* main has ended after one of the two subcommands.
EnsureCleanReturned ==
    \/ pc = "update_latest"
    \/ pc = "done" /\ subcommand # "none"

(* ------------------------------ claims -------------------------------- *)

\* C1: ensure_clean returns only right after a status query that decoded
\* zero changes: at every return the last process spawned is such a query,
\* and (status being read-only and truthful, nobody else touching the
\* workspace) nothing is pending in the workspace.
C1_ReturnsOnlyWhenClean ==
    EnsureCleanReturned =>
        /\ trace # <<>>
        /\ IsClean(Last(trace))
        /\ ws = {}

\* C1 witness: ensure_clean returned after a loop that had to undo changes.
C1_Witness ==
    /\ subcommand = "ensure" /\ pc = "done"
    /\ Cardinality(UndoCalls) >= 1
    /\ IsClean(Last(trace))

\* C2: when update returns, `cm update` was spawned exactly once and the
\* last process of the run is a later status query that decoded zero
\* changes, whatever the update left pending.
C2_UpdateEndsClean ==
    (subcommand = "update" /\ pc = "done") =>
        /\ Cardinality(UpdateCalls) = 1
        /\ IsClean(Last(trace))
        /\ \A i \in UpdateCalls : i < Len(trace)

\* C2 witness: update returned although `cm update` had left changes behind.
C2_Witness ==
    /\ subcommand = "update" /\ pc = "done"
    /\ \E i \in UpdateCalls :
          \E j \in StatusCalls : j > i /\ trace[j].n > 0

\* C3: `cm update` is spawned only from a clean baseline: the process
\* spawned right before it is a status query that decoded zero changes (so
\* no undo lies between the two).
C3_UpdateFromCleanBaseline ==
    \A i \in UpdateCalls : i > 1 /\ IsClean(trace[i - 1])

\* C3 witness: `cm update` was spawned after a first loop that undid changes.
C3_Witness ==
    \E i \in UpdateCalls : \E j \in UndoCalls : j < i

\* C4: ensure on a workspace whose first status query decodes zero changes
\* makes that one status query, no undo call, and returns.
C4_CleanIsOneQuery ==
    (subcommand = "ensure" /\ trace # <<>> /\ IsClean(trace[1])) =>
        /\ pc = "done"
        /\ Len(trace) = 1
        /\ Cardinality(StatusCalls) = 1
        /\ Cardinality(UndoCalls) = 0

\* C4 witness: ensure ended after a clean first query.
C4_Witness ==
    subcommand = "ensure" /\ pc = "done" /\ Len(trace) = 1 /\ IsClean(trace[1])

\* C5: when ensure returns, every status query but the last decoded one or
\* more changes, the last decoded zero, and the number of undo calls is the
\* sum of the numbers of changes the queries decoded.
C5_ConvergenceCount ==
    (subcommand = "ensure" /\ pc = "done") =>
        /\ \A i \in StatusCalls :
              IF i = Len(trace) THEN trace[i].n = 0 ELSE trace[i].n > 0
        /\ Cardinality(UndoCalls) = SumReported(trace)
        /\ Len(trace) = Cardinality(StatusCalls) + Cardinality(UndoCalls)

\* C5 witness: ensure returned after three status queries, K = 3.
C5_Witness ==
    subcommand = "ensure" /\ pc = "done" /\ Cardinality(StatusCalls) = 3

\* C6: the undo calls made since the last status query carry the paths of
\* the decoded Status, entry by entry in its order; when the round is over
\* there is one call per entry.
C6_OrderPreserved ==
    LET query == LastStatus
        round == CallsAfter(query)
    IN  (query > 0 /\ trace[query].n > 0) =>
            /\ Len(round) <= Len(status)
            /\ \A j \in DOMAIN round :
                   round[j].args = <<"undo", status[j].path>>
            /\ pc = "get_status" => Len(round) = Len(status)
            /\ pc = "undo" => Len(round) = idx - 1

\* C6 witness: a finished round for a Status listing b before a.
C6_Witness ==
    /\ pc = "get_status"
    /\ Len(status) = 2
    /\ status[1].path = "/ws/b.txt" /\ status[2].path = "/ws/a.txt"
    /\ Len(Round) = 2

\* C7: in an update run whose first status query is clean and in which no
\* call fails, with M the number of changes the post-update query decodes,
\* the processes spawned are a prefix of: status, update, status, M undo
\* calls, status; the run does not end before that sequence is complete,
\* and if its last query is clean the run ends there.
C7_UpdateComposition ==
    (/\ subcommand = "update"
     /\ trace # <<>>
     /\ IsClean(trace[1])
     /\ \A i \in DOMAIN trace : ~IsFailed(trace[i])) =>
        /\ Len(trace) >= 2 => IsUpdate(trace[2])
        /\ Len(trace) >= 3 => IsStatus(trace[3])
        /\ pc = "done" => Len(trace) >= 3
        /\ Len(trace) >= 3 =>
              LET M == trace[3].n IN
              IF M = 0
              THEN pc = "done" /\ Len(trace) = 3
              ELSE /\ \A j \in 4..(3 + M) : j <= Len(trace) => IsUndo(trace[j])
                   /\ Len(trace) >= 4 + M => IsStatus(trace[4 + M])
                   /\ pc = "done" => Len(trace) >= 4 + M
                   /\ (Len(trace) >= 4 + M /\ IsClean(trace[4 + M])) =>
                         /\ pc = "done"
                         /\ Len(trace) = 4 + M
                         /\ Cardinality(StatusCalls) = 3
                         /\ Cardinality(UpdateCalls) = 1
                         /\ Cardinality(UndoCalls) = M

\* C7 witness: status (clean), update, status (one change), undo, status
\* (clean).
C7_Witness ==
    /\ subcommand = "update" /\ pc = "done"
    /\ Len(trace) = 5
    /\ IsClean(trace[1]) /\ IsUpdate(trace[2])
    /\ IsStatus(trace[3]) /\ trace[3].n = 1
    /\ IsUndo(trace[4]) /\ IsClean(trace[5])

\* C8: a status query that fails (no process, or stdout that does not
\* decode) is the last process of the run: the program has panicked, and
\* neither an undo nor another query follows it.
C8_StatusFailureAborts ==
    \A i \in StatusCalls :
        IsFailed(trace[i]) => (i = Len(trace) /\ pc = "panicked")

\* C8 witness: the status query of the second iteration failed after the
\* first iteration had undone a change.
C8_Witness ==
    /\ Len(trace) >= 3
    /\ IsStatus(Last(trace)) /\ IsFailed(Last(trace))
    /\ Cardinality(UndoCalls) >= 1

\* C9: an undo call that fails is the last process of the run: the program
\* has panicked at that turn of cleanup, the undo calls for the remaining
\* changes of the Status and the next status query are never made.
C9_UndoFailureAborts ==
    \A i \in UndoCalls :
        IsFailed(trace[i]) =>
            /\ i = Len(trace)
            /\ pc = "panicked"
            /\ LET round == Round IN
               /\ Len(round) = idx
               /\ round[idx].args = <<"undo", status[idx].path>>

\* C9 witness: the undo call for the first of two changes failed.
C9_Witness ==
    /\ pc = "panicked"
    /\ IsUndo(Last(trace)) /\ IsFailed(Last(trace))
    /\ idx = 1 /\ Len(status) = 2

\* C10: update is fail-fast: no `cm update` is spawned after a failed call,
\* nothing is spawned after a failed `cm update`, and a run with a failed
\* call never ends in success.
C10_UpdateFailFast ==
    subcommand = "update" =>
        /\ \A i \in FailedCalls : \A j \in UpdateCalls : j <= i
        /\ \A j \in UpdateCalls : IsFailed(trace[j]) => j = Len(trace)
        /\ FailedCalls # {} => pc = "panicked"

\* C10 witness: `cm update` could not be spawned.
C10_Witness ==
    /\ subcommand = "update" /\ pc = "panicked"
    /\ IsUpdate(Last(trace)) /\ IsFailed(Last(trace))

\* C11: a process that was launched but did not run to completion (it was
\* killed) is a ToolInvocationError: the program aborts on it, as it does on
\* a process that could not be launched.
C11_KilledIsFatal ==
    exit_status = "killed" => pc = "panicked"

\* C12: after a status query whose stdout is a document with an absent or
\* empty change collection, the decoded Status is empty, nothing has
\* panicked and ensure_clean has returned; after one whose stdout is no
\* document, the program has panicked with a message that carries that
\* stdout text.
C12_DecodeRobustness ==
    (trace # <<>> /\ IsStatus(Last(trace)) /\ Last(trace).result = "Ok") =>
        LET doc == contents[1] IN
        /\ (doc.wellFormed /\ (~doc.hasChanges \/ doc.entries = <<>>)) =>
              /\ Last(trace).n = 0
              /\ status = <<>>
              /\ panic = <<>>
              /\ EnsureCleanReturned
        /\ ~doc.wellFormed =>
              /\ pc = "panicked"
              /\ panic = <<"Cannot deserialize", doc>>

\* C12 witness: ensure ended on a document without any change collection.
C12_Witness ==
    /\ subcommand = "ensure" /\ pc = "done"
    /\ contents = <<[wellFormed |-> TRUE, hasChanges |-> FALSE,
                     entries |-> <<>>]>>

\* C13: against a workspace in which some change is always pending, and with
\* no call failing, ensure_clean never returns and never fails: the program
\* is never done, and it is again and again at a status query and again and
\* again at an undo call.
C13_StubbornLoopsForever ==
    (subcommand # "none" /\ [](ws # {}) /\ [](pc # "panicked")) =>
        /\ [](pc # "done")
        /\ []<>(pc = "get_status")
        /\ []<>(pc = "undo")

\* C13 witness: a round of undo calls is over, a change is still pending
\* and the loop is back at its status query.
C13_Witness ==
    /\ subcommand = "ensure" /\ pc = "get_status"
    /\ ws # {}
    /\ trace # <<>> /\ IsUndo(Last(trace))

\* C14: if no call fails and from some point on nothing is pending in the
\* workspace, the run of ensure, and of update, eventually ends in success.
C14_TerminatesWhenExhausted ==
    ([](pc # "panicked") /\ <>[](ws = {})) => <>(pc = "done")

\* C14 witness: update ended with nothing pending (the history holds the
\* last call only: the clean status query of its second loop).
C14_Witness ==
    /\ subcommand = "update" /\ pc = "done" /\ caller = "update_post"
    /\ ws = {}
    /\ Len(trace) = 1 /\ IsClean(Last(trace))

\* C15: a Status is never reused.  Every undo call follows a status query
\* that decoded changes, or another undo call; the n calls after a query
\* that decoded n changes are undo calls and the call after them is a fresh
\* status query; and the undo calls since the latest query are all for
\* entries of the Status that query decoded.
C15_StatusNeverReused ==
    /\ \A i \in UndoCalls :
          /\ i > 1
          /\ IsUndo(trace[i - 1]) \/ (IsStatus(trace[i - 1]) /\ trace[i - 1].n > 0)
    /\ \A i \in StatusCalls :
          trace[i].n > 0 =>
              \A j \in (i + 1)..Len(trace) :
                  /\ j <= i + trace[i].n => IsUndo(trace[j])
                  /\ j = i + trace[i].n + 1 => IsStatus(trace[j])
    /\ LET query == LastStatus
           round == CallsAfter(query)
       IN  (query > 0 /\ trace[query].n >= 0) =>
               /\ Len(status) = trace[query].n
               /\ \A j \in DOMAIN round :
                      IsUndo(round[j]) =>
                          \E k \in DOMAIN status :
                              round[j].args[2] = status[k].path

\* C15 witness: two rounds of undo calls, each after its own status query.
C15_Witness ==
    \E i \in StatusCalls : \E j \in StatusCalls :
        /\ i < j
        /\ trace[i].n > 0 /\ trace[j].n > 0
        /\ j < Len(trace) /\ IsUndo(Last(trace))

\* C16: an undo process that ran and left its change pending does not make
\* the program panic and is not run again in the same round: cleanup moves
\* on to the next entry of the same Status, or, after the last entry, the
\* loop goes back to its status query.
C16_UndoNotVerified ==
    [][(/\ pc = "undo"
        /\ trace' # trace
        /\ Last(trace').result = "Ok"
        /\ CleanupChange(status, idx).path \in ws')
       => /\ pc' # "panicked"
          /\ panic' = <<>>
          /\ status' = status
          /\ IF idx < Len(status)
             THEN pc' = "undo" /\ idx' = idx + 1
             ELSE pc' = "get_status"]_vars

\* C16 witness: the undo process for the first of two changes ran, the
\* change is still pending, and cleanup is at the second change.
C16_Witness ==
    /\ pc = "undo" /\ idx = 2
    /\ IsUndo(Last(trace)) /\ Last(trace).result = "Ok"
    /\ Last(trace).args[2] \in ws

\* C17: every Change of a decoded Status has a non-empty path, and so has
\* every undo call, also when the document has a change entry without a
\* path field.
C17_PathsNonEmpty ==
    /\ \A k \in DOMAIN status : status[k].path # ""
    /\ \A i \in UndoCalls : trace[i].args[2] # ""

\* C19: no step changes the working directory, and every process spawned
\* so far (status, undo, update) was given the working directory the run
\* started with.
C19_WorkingDirFixed ==
    [][/\ working_dir' = working_dir
       /\ \A i \in DOMAIN trace' : trace'[i].cwd = working_dir]_vars

\* C19 witness: an update run in /other that has spawned a status query, the
\* update and an undo call.
C19_Witness ==
    /\ subcommand = "update" /\ working_dir = "/other"
    /\ UndoCalls # {} /\ UpdateCalls # {} /\ StatusCalls # {}
    /\ \A i \in DOMAIN trace : trace[i].cwd = "/other"

====
